---- MODULE Spec2Model ----
(***************************************************************************)
(* Model of the price-scraper API of src/main.py: the /api/scrape handler  *)
(* (scrape_product), the /api/product/{id} handler (get_product), the      *)
(* store dispatch of src/scrapers/scraper_factory.py and the Product and   *)
(* PriceHistory tables of src/models.py.                                   *)
(*                                                                         *)
(* Python strings are TLA+ strings; None and '' are both the empty string, *)
(* because main.py only ever tests the scraped fields for truthiness.      *)
(***************************************************************************)
EXTENDS Integers, Sequences, FiniteSets, TLC

----------------------------------------------------------------------------
(* String helpers: the str and re primitives the source uses.              *)

CharAt(s, i) == IF i >= 1 /\ i <= Len(s) THEN SubSeq(s, i, i) ELSE ""

InClass(c, cls) == c # "" /\ \E i \in 1..Len(cls) : SubSeq(cls, i, i) = c

\* `sub in s`
Contains(s, sub) ==
    \E i \in 1..(Len(s) - Len(sub) + 1) : SubSeq(s, i, i + Len(sub) - 1) = sub

\* s.startswith(pre)
StartsWith(s, pre) == Len(s) >= Len(pre) /\ SubSeq(s, 1, Len(pre)) = pre

\* s.find(sub) + 1 (0 when absent)
Find(s, sub) ==
    IF Contains(s, sub)
    THEN CHOOSE i \in 1..(Len(s) - Len(sub) + 1) :
            /\ SubSeq(s, i, i + Len(sub) - 1) = sub
            /\ \A j \in 1..(i - 1) : SubSeq(s, j, j + Len(sub) - 1) # sub
    ELSE 0

UpperChars == "ABCDEFGHIJKLMNOPQRSTUVWXYZ"
LowerChars == "abcdefghijklmnopqrstuvwxyz"
DigitChars == "0123456789"

LowerChar(c) ==
    IF InClass(c, UpperChars)
    THEN LET i == CHOOSE k \in 1..Len(UpperChars) : SubSeq(UpperChars, k, k) = c
         IN  SubSeq(LowerChars, i, i)
    ELSE c

\* s.lower()
RECURSIVE Lower(_)
Lower(s) ==
    IF Len(s) = 0 THEN ""
    ELSE LowerChar(SubSeq(s, 1, 1)) \o Lower(SubSeq(s, 2, Len(s)))

\* Length of the longest run of characters of cls that starts at position i
\* (a greedy cls* match).
RunLen(s, i, cls) ==
    CHOOSE n \in 0..(Len(s) - i + 1) :
        /\ \A k \in 0..(n - 1) : InClass(CharAt(s, i + k), cls)
        /\ ~InClass(CharAt(s, i + n), cls)

----------------------------------------------------------------------------
(* simplify_url (src/main.py:74-104)                                       *)

\* re.search(r'/dp/([A-Z0-9]+)', url): group(1) of the leftmost match, or ""
AmazonIdClass == UpperChars \o DigitChars

AmazonMatchAt(url, i) ==
    /\ SubSeq(url, i, i + 3) = "/dp/"
    /\ InClass(CharAt(url, i + 4), AmazonIdClass)

amazon_match(url) ==
    LET hits == {i \in 1..(Len(url) - 4) : AmazonMatchAt(url, i)}
    IN  IF hits = {} THEN ""
        ELSE LET i == CHOOSE h \in hits : \A g \in hits : h <= g
             IN  SubSeq(url, i + 4, i + 3 + RunLen(url, i + 4, AmazonIdClass))

\* re.search(r'(ML[A-Z]-?\d+)', url): group(1) of the leftmost match, or ""
MLDigitsStart(url, i) == IF CharAt(url, i + 3) = "-" THEN i + 4 ELSE i + 3

MercadoLibreMatchAt(url, i) ==
    /\ SubSeq(url, i, i + 1) = "ML"
    /\ InClass(CharAt(url, i + 2), UpperChars)
    /\ InClass(CharAt(url, MLDigitsStart(url, i)), DigitChars)

mercadolibre_match(url) ==
    LET hits == {i \in 1..(Len(url) - 3) : MercadoLibreMatchAt(url, i)}
    IN  IF hits = {} THEN ""
        ELSE LET i == CHOOSE h \in hits : \A g \in hits : h <= g
                 d == MLDigitsStart(url, i)
             IN  SubSeq(url, i, d - 1 + RunLen(url, d, DigitChars))

\* Mutant: the MercadoLibre URL is rebuilt with the Amazon path segment
simplify_url_dp(url) ==
    IF amazon_match(url) # ""
    THEN "https://www.amazon.com/dp/" \o amazon_match(url)
    ELSE IF mercadolibre_match(url) # ""
    THEN IF Contains(Lower(url), "mercadolibre.com.mx")
         THEN "https://www.mercadolibre.com.mx/dp/" \o mercadolibre_match(url)
         ELSE IF Contains(Lower(url), "mercadolibre.com.ar")
         THEN "https://www.mercadolibre.com.ar/dp/" \o mercadolibre_match(url)
         ELSE IF Contains(Lower(url), "mercadolibre.com.co")
         THEN "https://www.mercadolibre.com.co/dp/" \o mercadolibre_match(url)
         ELSE "https://www.mercadolibre.com/dp/" \o mercadolibre_match(url)
    ELSE url

simplify_url(url) ==
    IF amazon_match(url) # ""
    THEN "https://www.amazon.com/dp/" \o amazon_match(url)
    ELSE IF mercadolibre_match(url) # ""
    THEN IF Contains(Lower(url), "mercadolibre.com.mx")
         THEN "https://www.mercadolibre.com.mx/item/" \o mercadolibre_match(url)
         ELSE IF Contains(Lower(url), "mercadolibre.com.ar")
         THEN "https://www.mercadolibre.com.ar/item/" \o mercadolibre_match(url)
         ELSE IF Contains(Lower(url), "mercadolibre.com.co")
         THEN "https://www.mercadolibre.com.co/item/" \o mercadolibre_match(url)
         ELSE "https://www.mercadolibre.com/item/" \o mercadolibre_match(url)
    ELSE url

----------------------------------------------------------------------------
(* get_scraper_function / get_supported_stores                             *)
(* (src/scrapers/scraper_factory.py)                                       *)

\* urlparse(url).netloc: the text between the "//" that follows the scheme
\* and the next "/", "?" or "#"; raises ValueError on an unbalanced "[" "]".
SchemeChars == LowerChars \o UpperChars \o DigitChars \o "+-."

AfterScheme(url) ==
    LET i == Find(url, ":")
    IN  IF /\ i > 1
           /\ InClass(CharAt(url, 1), LowerChars \o UpperChars)
           /\ \A k \in 1..(i - 1) : InClass(CharAt(url, k), SchemeChars)
        THEN SubSeq(url, i + 1, Len(url))
        ELSE url

\* Index of the first character of s that is one of delims, Len(s) + 1 if none
FirstOf(s, delims) ==
    CHOOSE i \in 1..(Len(s) + 1) :
        /\ i <= Len(s) => InClass(CharAt(s, i), delims)
        /\ \A j \in 1..(i - 1) : ~InClass(CharAt(s, j), delims)

urlparse_netloc(url) ==
    LET rest == AfterScheme(url)
    IN  IF ~StartsWith(rest, "//") THEN [raised |-> FALSE, netloc |-> ""]
        ELSE LET body == SubSeq(rest, 3, Len(rest))
                 loc  == SubSeq(body, 1, FirstOf(body, "/?#") - 1)
             IN  IF Contains(loc, "[") # Contains(loc, "]")
                 THEN [raised |-> TRUE, netloc |-> ""]
                 ELSE [raised |-> FALSE, netloc |-> loc]

NoScraper == "None"

\* Mutant: the store is matched on the whole URL, as the store label is
get_scraper_function_url(url) ==
    IF Contains(Lower(url), "amazon.com") \/ Contains(Lower(url), "amazon.")
    THEN "scrape_amazon"
    ELSE IF Contains(Lower(url), "mercadolibre.")
    THEN "scrape_mercadolibre"
    ELSE NoScraper

get_scraper_function(url) ==
    LET parsed == urlparse_netloc(url)
        lowered == Lower(parsed.netloc)
        domain == IF StartsWith(lowered, "www.")
                  THEN SubSeq(lowered, 5, Len(lowered))
                  ELSE lowered
    IN  IF parsed.raised THEN NoScraper
        ELSE IF Contains(domain, "amazon.com") \/ Contains(domain, "amazon.")
        THEN "scrape_amazon"
        ELSE IF \/ Contains(domain, "mercadolibre.com")
                \/ Contains(domain, "mercadolibre.")
                \/ Contains(domain, "mercadolibre.com.")
        THEN "scrape_mercadolibre"
        ELSE NoScraper

get_supported_stores == <<"Amazon", "MercadoLibre">>

----------------------------------------------------------------------------
(* parse_price (src/main.py:53-71)                                         *)

\* re.sub(r'[^\d.]', '', price_str)
RECURSIVE StripNonNumeric(_)
StripNonNumeric(s) ==
    IF Len(s) = 0 THEN ""
    ELSE (IF InClass(SubSeq(s, 1, 1), DigitChars \o ".") THEN SubSeq(s, 1, 1) ELSE "")
            \o StripNonNumeric(SubSeq(s, 2, Len(s)))

DigitVal(c) == (CHOOSE k \in 1..Len(DigitChars) : SubSeq(DigitChars, k, k) = c) - 1

\* Value of a string of decimal digits ("" is 0)
RECURSIVE DigitsToNat(_)
DigitsToNat(s) ==
    IF Len(s) = 0 THEN 0
    ELSE 10 * DigitsToNat(SubSeq(s, 1, Len(s) - 1)) + DigitVal(SubSeq(s, Len(s), Len(s)))

\* Fraction digits without trailing zeros: 14.980 and 14.98 are the same float
RECURSIVE TrimZeros(_)
TrimZeros(s) ==
    IF Len(s) > 0 /\ SubSeq(s, Len(s), Len(s)) = "0"
    THEN TrimZeros(SubSeq(s, 1, Len(s) - 1))
    ELSE s

\* The None that parse_price returns; a float is [whole, frac], the digits
\* before and after the decimal point.
NoPrice == [whole |-> -1, frac |-> ""]

\* Mutant: what follows a second decimal point is ignored
float_first_points(cleaned) ==
    LET dot   == Find(cleaned, ".")
        whole == IF dot = 0 THEN cleaned ELSE SubSeq(cleaned, 1, dot - 1)
        rest  == IF dot = 0 THEN "" ELSE SubSeq(cleaned, dot + 1, Len(cleaned))
        frac  == IF Contains(rest, ".") THEN SubSeq(rest, 1, Find(rest, ".") - 1) ELSE rest
    IN  IF Len(whole) + Len(frac) = 0
        THEN NoPrice
        ELSE [whole |-> DigitsToNat(whole), frac |-> TrimZeros(frac)]

\* float(cleaned): digits with at most one decimal point and at least one
\* digit; anything else raises ValueError.
float(cleaned) ==
    LET dot   == Find(cleaned, ".")
        whole == IF dot = 0 THEN cleaned ELSE SubSeq(cleaned, 1, dot - 1)
        frac  == IF dot = 0 THEN "" ELSE SubSeq(cleaned, dot + 1, Len(cleaned))
    IN  IF Contains(frac, ".") \/ Len(whole) + Len(frac) = 0
        THEN NoPrice
        ELSE [whole |-> DigitsToNat(whole), frac |-> TrimZeros(frac)]

parse_price(price_str) ==
    IF price_str = "" THEN NoPrice
    ELSE float(StripNonNumeric(price_str))

----------------------------------------------------------------------------
(* Store label detection of scrape_product (src/main.py:250-270)           *)

store_name_of(url) ==
    LET url_lower == Lower(url)
    IN  IF Contains(url_lower, "amazon.com") THEN "Amazon.com"
        ELSE IF Contains(url_lower, "amazon.es") THEN "Amazon.es"
        ELSE IF Contains(url_lower, "amazon.co.uk") THEN "Amazon.co.uk"
        ELSE IF Contains(url_lower, "amazon") THEN "Amazon"
        ELSE IF Contains(url_lower, "mercadolibre.com.mx") THEN "MercadoLibre México"
        ELSE IF Contains(url_lower, "mercadolibre.com.ar") THEN "MercadoLibre Argentina"
        ELSE IF Contains(url_lower, "mercadolibre.com.co") THEN "MercadoLibre Colombia"
        ELSE IF \/ Contains(url_lower, "mercadolibre.com.br")
                \/ Contains(url_lower, "mercadolivre.com.br") THEN "MercadoLibre Brasil"
        ELSE IF Contains(url_lower, "mercadolibre") THEN "MercadoLibre"
        ELSE "Unknown Store"

\* Mutant: the keys of the result dict are tested, not their values
has_data_keys(scraped_data) == DOMAIN scraped_data # {}

\* has_data of scrape_product (src/main.py:211-215)
has_data(scraped_data) ==
    \/ scraped_data.title # ""
    \/ scraped_data.price # ""
    \/ scraped_data.image_url # ""

----------------------------------------------------------------------------
(* State                                                                   *)

\* Bound: number of /api/scrape calls of one behaviour
MaxScrapes == 2

\* Clients of the API; each has at most one scrape request outstanding, so
\* up to two requests are in flight at once.
Clients == {1, 2}

\* Server processes that serve the app against the one SQLite file of
\* src/database.py:14. Each has its own event loop and its own executor.
Servers == {"s1", "s2"}

\* ThreadPoolExecutor(max_workers=3), src/main.py:42
max_workers == 3

\* Request URLs of the scrape model
ScrapeUrls ==
    { "https://www.amazon.com/dp/B07R?tracking=xyz",
      "https://www.amazon.com/dp/B07R?ref=abc",
      "https://www.mercadolibre.com.mx/p/MLM12",
      "https://example.com/item/1",
      "https://[www.amazon.com/dp/B07R" }

\* Results a scraper job returns: the dict {'title', 'price', 'image_url'}
ExtractionResults ==
    { [title |-> "",         price |-> "",       image_url |-> ""],
      [title |-> "Soap",     price |-> "N/A",    image_url |-> ""],
      [title |-> "",         price |-> "$14.98", image_url |-> ""],
      [title |-> "Soap Bar", price |-> "$14.98", image_url |-> "i.jpg"] }

\* Inputs of the ledger model: two products, two prices
LedgerUrls ==
    { "https://www.amazon.com/dp/B07R?tracking=xyz",
      "https://www.mercadolibre.com.mx/p/MLM12" }

LedgerResults ==
    { [title |-> "",         price |-> "$14.98", image_url |-> ""],
      [title |-> "Soap Bar", price |-> "$15.50", image_url |-> "i.jpg"] }

NoData == [title |-> "", price |-> "", image_url |-> ""]

VARIABLES
    product,        \* table Product: rows in id order, id = position
    pricehistory,   \* table PriceHistory: rows in id order, id = position
    clock,          \* datetime.utcnow()
    calls,          \* number of scrape calls received so far
    req,            \* per client: the locals of its scrape_product coroutine
    loop,           \* per server: the coroutine its event loop is running
    executor,       \* per server: the thread pool's work queue and threads
    gp,             \* the get_product call
    canon_in,       \* canonicalization model: the raw URL
    canon_out,      \* canonicalization model: successive simplify_url results
    job,            \* scraper model: per job, the locals of the scraper function
    chain,          \* extraction model: the page and the progress of the chains
    parse,          \* price model: the price string and what parse_price made of it
    route           \* routing model: a URL, its scraper, canonical URL and store label

\* The variables of the scraper, extraction and price models
unit_vars == <<job, chain, parse, route>>

vars == <<product, pricehistory, clock, calls, req, loop, executor, gp,
          canon_in, canon_out, job, chain, parse, route>>

NoRequest == 0

NoResponse ==
    [kind |-> "none", status_code |-> 0, detail |-> "", success |-> FALSE,
     error |-> "", saved_to_database |-> "unset", database_error |-> "",
     product_id |-> 0, price_history |-> <<>>, data |-> <<>>]

NewRequest ==
    [pc |-> "idle", server |-> "", url |-> "", scraped_data |-> NoData,
     base_url |-> "", existing_id |-> 0, existing_name |-> "",
     product_id |-> 0, price_float |-> NoPrice, failed |-> "", exception |-> "",
     response |-> NoResponse]

NoCall == [pc |-> "idle", server |-> "", product_id |-> 0, response |-> NoResponse]

Init ==
    /\ product = <<>>
    /\ pricehistory = <<>>
    /\ clock = 1
    /\ calls = 0
    /\ req = [r \in Clients |-> NewRequest]
    /\ loop = [s \in Servers |-> NoRequest]
    /\ executor = [s \in Servers |-> [queue |-> <<>>, threads |-> {}]]
    /\ gp = NoCall
    /\ canon_in = ""
    /\ canon_out = <<>>
    /\ job = <<>>
    /\ chain = <<>>
    /\ parse = <<>>
    /\ route = <<>>

----------------------------------------------------------------------------
(* Database statements of scrape_product and get_product                   *)

\* select(Product).where(Product.base_url == base_url) ... .first():
\* the id of the row, 0 for None (src/main.py:231-232)
select_product_by_url(base_url) ==
    LET hits == {i \in 1..Len(product) : product[i].base_url = base_url}
    IN  IF hits = {} THEN 0 ELSE CHOOSE h \in hits : \A g \in hits : h <= g

\* Mutant: the column is declared without unique=True
unique_violation_off(rows, row) == FALSE

\* Field(unique=True) on Product.base_url (src/models.py:24): the INSERT of
\* a row is rejected when a row with that base_url exists.
unique_violation(rows, row) ==
    \E i \in 1..Len(rows) : rows[i].base_url = row.base_url

\* Mutant: the row is stored under the raw request URL
new_product_raw(r, now) ==
    [id         |-> Len(product) + 1,
     name       |-> IF req[r].scraped_data.title # ""
                    THEN req[r].scraped_data.title ELSE "Unknown Product",
     base_url   |-> req[r].url,
     created_at |-> now,
     updated_at |-> now]

\* Product(name=title or "Unknown Product", base_url=base_url)
\* (src/main.py:241-244); id, created_at, updated_at from src/models.py:22-26
new_product(r, now) ==
    [id         |-> Len(product) + 1,
     name       |-> IF req[r].scraped_data.title # ""
                    THEN req[r].scraped_data.title ELSE "Unknown Product",
     base_url   |-> req[r].base_url,
     created_at |-> now,
     updated_at |-> now]

\* Mutant: the scraped title is stored as it is, empty or not
updated_product_overwrite(row, r, now) ==
    [row EXCEPT !.name = req[r].scraped_data.title, !.updated_at = now]

\* existing_product.name = title or existing_product.name;
\* existing_product.updated_at = utcnow() (src/main.py:236-237). The session
\* holds the row as it was selected and the commit writes the attributes
\* whose value differs from the loaded one.
updated_product(row, r, now) ==
    LET name == IF req[r].scraped_data.title # ""
                THEN req[r].scraped_data.title ELSE req[r].existing_name
    IN  [row EXCEPT !.name = IF name # req[r].existing_name THEN name ELSE @,
                    !.updated_at = now]

\* Mutant: the product's latest observation is kept up to date in place
price_history_overwrite(rows, product_id, store_name, price_float, now) ==
    LET own == {i \in 1..Len(rows) : rows[i].product_id = product_id}
    IN  IF price_float = NoPrice THEN rows
        ELSE IF own = {}
        THEN Append(rows, [id |-> Len(rows) + 1, product_id |-> product_id,
                           store_name |-> store_name, price |-> price_float,
                           timestamp |-> now])
        ELSE LET last == CHOOSE i \in own : \A j \in own : j <= i
             IN  [rows EXCEPT ![last].price = price_float, ![last].timestamp = now]

\* Mutant: an observation equal to the product's previous price is skipped
price_history_dedup(rows, product_id, store_name, price_float, now) ==
    LET own == {i \in 1..Len(rows) : rows[i].product_id = product_id}
    IN  IF \/ price_float = NoPrice
           \/ \E i \in own : (\A j \in own : j <= i) /\ rows[i].price = price_float
        THEN rows
        ELSE Append(rows, [id |-> Len(rows) + 1, product_id |-> product_id,
                           store_name |-> store_name, price |-> price_float,
                           timestamp |-> now])

\* PriceHistory(product_id, store_name, price) added and committed iff
\* price_float is not None (src/main.py:275-282; src/models.py:54-58)
price_history_after(rows, product_id, store_name, price_float, now) ==
    IF price_float # NoPrice
    THEN Append(rows, [id         |-> Len(rows) + 1,
                       product_id |-> product_id,
                       store_name |-> store_name,
                       price      |-> price_float,
                       timestamp  |-> now])
    ELSE rows

\* Mutant: the rows are ordered oldest first
select_price_history_asc(product_id) ==
    LET ids == {i \in 1..Len(pricehistory) : pricehistory[i].product_id = product_id}
        n   == Cardinality(ids)
        ord == {q \in [1..n -> ids] :
                  /\ \A i, j \in 1..n : i # j => q[i] # q[j]
                  /\ \A i, j \in 1..n :
                        i < j => pricehistory[q[i]].timestamp <= pricehistory[q[j]].timestamp}
    IN  {[i \in 1..n |-> pricehistory[q[i]]] : q \in ord}

\* select(PriceHistory).where(product_id == id).order_by(timestamp.desc()):
\* every order of the product's rows that is descending in timestamp
\* (src/main.py:289-292, 357-361)
select_price_history(product_id) ==
    LET ids == {i \in 1..Len(pricehistory) : pricehistory[i].product_id = product_id}
        n   == Cardinality(ids)
        ord == {q \in [1..n -> ids] :
                  /\ \A i, j \in 1..n : i # j => q[i] # q[j]
                  /\ \A i, j \in 1..n :
                        i < j => pricehistory[q[i]].timestamp >= pricehistory[q[j]].timestamp}
    IN  {[i \in 1..n |-> pricehistory[q[i]]] : q \in ord}

----------------------------------------------------------------------------
(* Responses                                                               *)

\* ', '.join(supported_stores)
RECURSIVE join(_)
join(stores) ==
    IF Len(stores) = 0 THEN ""
    ELSE IF Len(stores) = 1 THEN stores[1]
    ELSE stores[1] \o ", " \o join(Tail(stores))

\* HTTPException(status_code=400, ...) of src/main.py:196-199
StoreUnsupported ==
    [NoResponse EXCEPT
        !.kind = "HTTPException", !.status_code = 400,
        !.detail = "Tienda no soportada. Tiendas soportadas: "
                      \o join(get_supported_stores)]

\* ScrapeResponse(success=False, ...) of src/main.py:218-223
NoDataResponse(scraped_data) ==
    [NoResponse EXCEPT
        !.kind = "ScrapeResponse", !.status_code = 200, !.success = FALSE,
        !.data = <<scraped_data>>,
        !.error = "No data could be extracted from the page. The page might be blocked or the URL is invalid."]

\* ScrapeResponse(success=True, ...) after the except of src/main.py:306-317
NotSavedResponse(scraped_data, db_error) ==
    [NoResponse EXCEPT
        !.kind = "ScrapeResponse", !.status_code = 200, !.success = TRUE,
        !.data = <<scraped_data>>,
        !.saved_to_database = "False", !.database_error = db_error]

\* ScrapeResponse(success=True, ...) of src/main.py:285-317
SavedResponse(scraped_data, product_id, price_history) ==
    [NoResponse EXCEPT
        !.kind = "ScrapeResponse", !.status_code = 200, !.success = TRUE,
        !.data = <<scraped_data>>,
        !.saved_to_database = "True", !.product_id = product_id,
        !.price_history = price_history]

\* HTTPException(status_code=404, ...) of src/main.py:351-354
NotFound(product_id) ==
    [NoResponse EXCEPT
        !.kind = "HTTPException", !.status_code = 404,
        !.detail = "Product with ID " \o ToString(product_id) \o " not found"]

\* ProductReadWithHistory(...) of src/main.py:375-382
ProductRead(product_id, price_history) ==
    [NoResponse EXCEPT
        !.kind = "ProductReadWithHistory", !.status_code = 200,
        !.success = TRUE, !.product_id = product_id,
        !.price_history = price_history]

----------------------------------------------------------------------------
(* The pure functions, evaluated once for the inputs of the model          *)

ModelUrls == ScrapeUrls \cup LedgerUrls

ModelResults == ExtractionResults \cup LedgerResults

scraper_function == [url \in ModelUrls |-> get_scraper_function(url)]

canonical == [url \in ModelUrls |-> simplify_url(url)]

store_name == [url \in ModelUrls |-> store_name_of(url)]

parsed_price == [data \in ModelResults |-> parse_price(data.price)]

----------------------------------------------------------------------------
(* scrape_product (src/main.py:173-325)                                    *)

\* Lines 191-208: dispatch; an unsupported store raises the 400 error, a
\* supported one submits the scraper job to the executor and awaits it.
\* ThreadPoolExecutor.submit: a free thread takes the job, else it is queued.
Receive(r, s, url) ==
    /\ req[r].pc \in {"idle", "done"}
    /\ calls < MaxScrapes
    /\ calls' = calls + 1
    /\ loop[s] = NoRequest
    /\ IF scraper_function[url] = NoScraper
       THEN /\ req' = [req EXCEPT ![r] =
                         [NewRequest EXCEPT !.pc = "done", !.server = s, !.url = url,
                                            !.response = StoreUnsupported]]
            /\ UNCHANGED executor
       ELSE /\ req' = [req EXCEPT ![r] =
                         [NewRequest EXCEPT !.pc = "awaiting", !.server = s, !.url = url]]
            /\ executor' =
                 IF Cardinality(executor[s].threads) < max_workers
                 THEN [executor EXCEPT ![s].threads = @ \cup {r}]
                 ELSE [executor EXCEPT ![s].queue = Append(@, r)]
    /\ UNCHANGED <<product, pricehistory, clock, loop, gp, canon_in, canon_out, unit_vars>>

\* The scraper job returns its result dict: the awaiting coroutine becomes
\* runnable, and the thread takes the oldest queued job, if any.
JobReturn(r, data) ==
    /\ req[r].pc = "awaiting"
    /\ r \in executor[req[r].server].threads
    /\ LET s == req[r].server
       IN  executor' =
             IF executor[s].queue = <<>>
             THEN [executor EXCEPT ![s].threads = @ \ {r}]
             ELSE [executor EXCEPT ![s].threads = (@ \ {r}) \cup {Head(executor[s].queue)},
                                   ![s].queue = Tail(@)]
    /\ req' = [req EXCEPT ![r].pc = "ready", ![r].scraped_data = data]
    /\ UNCHANGED <<product, pricehistory, clock, calls, loop, gp, canon_in, canon_out, unit_vars>>

\* Lines 210-232: the coroutine resumes on its server's event loop; without
\* data it returns the failure response, otherwise it canonicalizes the URL
\* and looks the product up.
Resume(r) ==
    /\ req[r].pc = "ready"
    /\ loop[req[r].server] = NoRequest
    /\ IF ~has_data(req[r].scraped_data)
       THEN /\ req' = [req EXCEPT ![r].pc = "done", ![r].response = NoDataResponse(req[r].scraped_data)]
            /\ UNCHANGED loop
       ELSE LET base_url == canonical[req[r].url]
                existing == select_product_by_url(base_url)
            IN  /\ req' = [req EXCEPT
                             ![r].pc = "upsert",
                             ![r].base_url = base_url,
                             ![r].existing_id = existing,
                             ![r].existing_name =
                                 IF existing = 0 THEN "" ELSE product[existing].name]
                /\ loop' = [loop EXCEPT ![req[r].server] = r]
    /\ UNCHANGED <<product, pricehistory, clock, calls, executor, gp, canon_in, canon_out, unit_vars>>

\* Lines 234-248: update the existing row or insert a new one, and commit.
\* A rejected INSERT raises inside the try block: lines 306-317 answer with
\* saved_to_database = False and the error text. d is the time that passed.
CommitProduct(r, d) ==
    /\ req[r].pc = "upsert"
    /\ clock' = clock + d
    /\ IF req[r].existing_id # 0
       THEN /\ product' = [product EXCEPT ![req[r].existing_id] =
                              updated_product(@, r, clock')]
            /\ req' = [req EXCEPT ![r].pc = "price",
                                  ![r].product_id = req[r].existing_id]
            /\ UNCHANGED loop
       ELSE IF unique_violation(product, new_product(r, clock'))
       THEN /\ req' = [req EXCEPT
                         ![r].pc = "done",
                         ![r].response =
                             NotSavedResponse(req[r].scraped_data,
                                 "UNIQUE constraint failed: product.base_url")]
            /\ loop' = [loop EXCEPT ![req[r].server] = NoRequest]
            /\ UNCHANGED product
       ELSE /\ product' = Append(product, new_product(r, clock'))
            /\ req' = [req EXCEPT ![r].pc = "price",
                                  ![r].product_id = new_product(r, clock').id]
            /\ UNCHANGED loop
    /\ UNCHANGED <<pricehistory, calls, executor, gp, canon_in, canon_out, unit_vars>>

\* Lines 250-282: store label, parse_price, and the PriceHistory row.
AppendPrice(r, d) ==
    /\ req[r].pc = "price"
    /\ clock' = clock + d
    /\ LET price_float == parsed_price[req[r].scraped_data]
       IN  /\ pricehistory' = price_history_after(pricehistory, req[r].product_id,
                                                  store_name[req[r].url],
                                                  price_float, clock')
           /\ req' = [req EXCEPT ![r].pc = "history", ![r].price_float = price_float]
    /\ UNCHANGED <<product, calls, loop, executor, gp, canon_in, canon_out, unit_vars>>

\* Lines 284-317: read the product's history back and return the response.
FetchHistory(r, price_history) ==
    /\ req[r].pc = "history"
    /\ price_history \in select_price_history(req[r].product_id)
    /\ req' = [req EXCEPT ![r].pc = "done",
                          ![r].response = SavedResponse(req[r].scraped_data,
                                                       req[r].product_id, price_history)]
    /\ loop' = [loop EXCEPT ![req[r].server] = NoRequest]
    /\ UNCHANGED <<product, pricehistory, clock, calls, executor, gp, canon_in, canon_out, unit_vars>>

----------------------------------------------------------------------------
(* get_product (src/main.py:328-382)                                       *)

\* The get_product coroutine, as an occupant of an event loop
GetCall == -1

\* Lines 346-354: select the product; 404 when there is none.
GetProductSelect(s, product_id) ==
    /\ gp.pc = "idle"
    /\ loop[s] = NoRequest
    /\ IF \E i \in 1..Len(product) : product[i].id = product_id
       THEN /\ gp' = [gp EXCEPT !.pc = "history", !.server = s, !.product_id = product_id]
            /\ loop' = [loop EXCEPT ![s] = GetCall]
       ELSE /\ gp' = [gp EXCEPT !.pc = "done", !.server = s, !.product_id = product_id,
                                !.response = NotFound(product_id)]
            /\ UNCHANGED loop
    /\ UNCHANGED <<product, pricehistory, clock, calls, req, executor, canon_in, canon_out, unit_vars>>

\* Lines 356-382: select the product's history, newest first, and return it.
GetProductHistory(price_history) ==
    /\ gp.pc = "history"
    /\ price_history \in select_price_history(gp.product_id)
    /\ gp' = [gp EXCEPT !.pc = "done",
                        !.response = ProductRead(gp.product_id, price_history)]
    /\ loop' = [loop EXCEPT ![gp.server] = NoRequest]
    /\ UNCHANGED <<product, pricehistory, clock, calls, req, executor, canon_in, canon_out, unit_vars>>

----------------------------------------------------------------------------
(* Specification of the scrape service: requests for the URLs of           *)
(* ScrapeUrls, scraper results of ExtractionResults. Every utcnow() reads  *)
(* a later time than the one before.                                       *)

\* The server processes are interchangeable: the first call goes to s1.
ServersFor(n) == IF n = 0 THEN {"s1"} ELSE Servers

Scrape(urls, results, ticks) ==
    \/ \E r \in Clients : \E s \in ServersFor(calls), url \in urls : Receive(r, s, url)
    \/ \E r \in Clients, data \in results : JobReturn(r, data)
    \/ \E r \in Clients : Resume(r)
    \/ \E r \in Clients, d \in ticks : CommitProduct(r, d)
    \/ \E r \in Clients, d \in ticks : AppendPrice(r, d)
    \/ \E r \in Clients : \E h \in select_price_history(req[r].product_id) :
          FetchHistory(r, h)

Next == Scrape(ScrapeUrls, ExtractionResults, {1})

Spec == Init /\ [][Next]_vars

----------------------------------------------------------------------------
(* Specification of the ledger: scrapes of LedgerUrls with the results of  *)
(* LedgerResults, and one get_product call.                                *)

GetProduct ==
    \/ \E s \in Servers, id \in 1..(MaxScrapes + 1) : GetProductSelect(s, id)
    \/ \E h \in select_price_history(gp.product_id) : GetProductHistory(h)

NextLedger == Scrape(LedgerUrls, LedgerResults, {1}) \/ GetProduct

SpecLedger == Init /\ [][NextLedger]_vars

----------------------------------------------------------------------------
(* Specification of the canonicalizer: simplify_url applied, and applied   *)
(* again to its own result, for product URLs of every host and URL shape.  *)

CanonHosts ==
    { "www.amazon.com", "amazon.es", "www.amazon.co.uk",
      "www.mercadolibre.com.mx", "articulo.mercadolibre.com.ar",
      "www.mercadolibre.com.co", "www.mercadolibre.com.br", "example.com" }

CanonPaths ==
    { "/dp/B07RJ18VMF", "/Soap/dp/B07RJ18VMF/ref=sr_1", "/p/MLM123",
      "/MLA-456-soap-_JM", "/item/1", "" }

CanonQueries == { "", "?tracking=xyz", "#reviews" }

CanonUrls ==
    { "https://" \o h \o p \o q : h \in CanonHosts, p \in CanonPaths, q \in CanonQueries }

InitCanon ==
    /\ Init!1 /\ Init!2 /\ Init!3 /\ Init!4 /\ Init!5
    /\ Init!6 /\ Init!7 /\ Init!8
    /\ canon_in \in CanonUrls
    /\ canon_out = <<>>
    /\ Init!11 /\ Init!12 /\ Init!13 /\ Init!14

\* canonical = simplify_url(raw), then canonical = simplify_url(canonical)
Canonicalize ==
    /\ Len(canon_out) < 2
    /\ canon_out' = Append(canon_out,
                           simplify_url(IF canon_out = <<>> THEN canon_in
                                        ELSE canon_out[Len(canon_out)]))
    /\ UNCHANGED <<product, pricehistory, clock, calls, req, loop, executor, gp, canon_in, unit_vars>>

NextCanon == Canonicalize

SpecCanon == InitCanon /\ [][NextCanon]_vars

----------------------------------------------------------------------------
(* Properties of the scrape service                                        *)

Saved(r) == req[r].response.saved_to_database = "True"

\* C1: every scrape that was saved finds exactly one Product row under the
\* canonical URL of its raw URL, and that row is the product it reported;
\* two raw URLs with one canonical URL share the row.
C1_OneRowPerCanonicalUrl ==
    \A r \in Clients :
        Saved(r) =>
            {i \in 1..Len(product) : product[i].base_url = canonical[req[r].url]}
                = {req[r].response.product_id}

\* Two saved scrapes of different raw URLs with the same canonical URL, and
\* one Product row.
C1_SameCanonicalTwice ==
    \E r1, r2 \in Clients :
        /\ Saved(r1) /\ Saved(r2)
        /\ req[r1].url # req[r2].url
        /\ canonical[req[r1].url] = canonical[req[r2].url]
        /\ req[r1].response.product_id = req[r2].response.product_id
        /\ Len(product) = 1

\* C2: in every state, whatever the interleaving of the requests, no two
\* Product rows have the same canonical URL.
C2_NoDuplicateProduct ==
    \A i, j \in 1..Len(product) :
        product[i].base_url = product[j].base_url => i = j

\* Two requests on two servers both looked the same canonical URL up and
\* found no row; one has inserted it and the other is about to insert.
C2_LookupRace ==
    \E r1, r2 \in Clients :
        /\ r1 # r2
        /\ req[r1].server # req[r2].server
        /\ req[r1].pc \in {"price", "history"}
        /\ req[r2].pc = "upsert"
        /\ req[r1].base_url = req[r2].base_url
        /\ req[r1].existing_id = 0 /\ req[r2].existing_id = 0
        /\ select_product_by_url(req[r2].base_url) # 0

\* C3: a request whose INSERT lost the race on the canonical URL still ends
\* saved against the existing row, with no error in its response: every
\* finished request that found no row at its lookup reports
\* saved_to_database = True and no database_error, and when its price
\* parsed, a PriceHistory row of its product carries it.
C3_ConflictRecovered ==
    \A r \in Clients :
        (req[r].pc = "done" /\ req[r].base_url # "" /\ req[r].existing_id = 0) =>
            /\ Saved(r)
            /\ req[r].response.database_error = ""
            /\ parsed_price[req[r].scraped_data] # NoPrice =>
                  \E i \in 1..Len(pricehistory) :
                      /\ pricehistory[i].product_id = req[r].response.product_id
                      /\ pricehistory[i].price = parsed_price[req[r].scraped_data]

\* C4: PriceHistory is append-only: no step of scrape_product or
\* get_product removes a row or changes a field of a row already written.
C4_AppendOnly ==
    [][\A i \in 1..Len(pricehistory) :
          /\ i <= Len(pricehistory')
          /\ pricehistory'[i] = pricehistory[i]]_vars

\* A row was written, a later scrape of the same product wrote another,
\* and get_product has read the product.
C4_WrittenThenUsed ==
    /\ Len(pricehistory) >= 2
    /\ pricehistory[1].product_id = pricehistory[2].product_id
    /\ gp.response.kind = "ProductReadWithHistory"
    /\ gp.response.product_id = pricehistory[1].product_id
    /\ Len(gp.response.price_history) >= 1

\* C5: the persistence step of a call (lines 273-282) appends exactly one
\* PriceHistory row, for the call's product and with the parsed price, iff
\* parse_price returned a price, whatever the rows already there; no other
\* step changes the table.
C5_OneRowPerParsedPrice ==
    [][IF \E r \in Clients : req[r].pc = "price" /\ req'[r].pc = "history"
       THEN \A r \in Clients :
              (req[r].pc = "price" /\ req'[r].pc = "history") =>
                 IF parsed_price[req[r].scraped_data] # NoPrice
                 THEN /\ Len(pricehistory') = Len(pricehistory) + 1
                      /\ SubSeq(pricehistory', 1, Len(pricehistory)) = pricehistory
                      /\ pricehistory'[Len(pricehistory')].product_id = req[r].product_id
                      /\ pricehistory'[Len(pricehistory')].price
                            = parsed_price[req[r].scraped_data]
                 ELSE pricehistory' = pricehistory
       ELSE pricehistory' = pricehistory]_vars

\* Two scrapes of one product returned the same parsable price, and the
\* table has a row for each.
C5_SamePriceTwice ==
    \E r1, r2 \in Clients :
        /\ r1 # r2
        /\ Saved(r1) /\ Saved(r2)
        /\ req[r1].product_id = req[r2].product_id
        /\ req[r1].scraped_data.price = req[r2].scraped_data.price
        /\ req[r1].price_float # NoPrice
        /\ Len(pricehistory) = 2
        /\ pricehistory[1].product_id = pricehistory[2].product_id
        /\ pricehistory[1].price = pricehistory[2].price

\* C6: canonicalization is idempotent: canonicalizing the canonical form of
\* any URL (Amazon /dp/ID, MercadoLibre ML?-ID, or no pattern) returns it
\* unchanged.
C6_Idempotent == Len(canon_out) = 2 => canon_out[2] = canon_out[1]

\* A MercadoLibre URL with tracking was rebuilt, and the result was
\* canonicalized again.
C6_RebuiltTwice ==
    /\ Len(canon_out) = 2
    /\ amazon_match(canon_in) = ""
    /\ mercadolibre_match(canon_in) # ""
    /\ canon_out[1] # canon_in

\* The regional suffix of a store host: what follows the store's name
Region(url) ==
    LET netloc == urlparse_netloc(url).netloc
    IN  IF Contains(netloc, "amazon.")
        THEN SubSeq(netloc, Find(netloc, "amazon.") + 7, Len(netloc))
        ELSE IF Contains(netloc, "mercadolibre.")
        THEN SubSeq(netloc, Find(netloc, "mercadolibre.") + 13, Len(netloc))
        ELSE ""

OnStoreHost(url) ==
    \/ Contains(urlparse_netloc(url).netloc, "amazon.") /\ amazon_match(url) # ""
    \/ /\ Contains(urlparse_netloc(url).netloc, "mercadolibre.")
       /\ amazon_match(url) = ""
       /\ mercadolibre_match(url) # ""

\* C7: the canonical URL of a product URL on a regional store host keeps
\* the region of the original host.
C7_RegionPreserved ==
    (Len(canon_out) >= 1 /\ OnStoreHost(canon_in))
        => Region(canon_out[1]) = Region(canon_in)

UnsupportedUrls == { "https://example.com/item/1", "https://[www.amazon.com/dp/B07R" }

\* C8: a request for a URL of no registered store, or with an unparsable
\* authority, is answered in the step that receives it with the 400 error
\* listing the supported stores in order, and that step submits no job to
\* the executor and writes no Product and no PriceHistory row.
C8_UnsupportedRejected ==
    [][\A r \in Clients :
          (req'[r] # req[r] /\ req'[r].url \in UnsupportedUrls) =>
              /\ req'[r].pc = "done"
              /\ req'[r].response.kind = "HTTPException"
              /\ req'[r].response.status_code = 400
              /\ req'[r].response.detail
                    = "Tienda no soportada. Tiendas soportadas: Amazon, MercadoLibre"
              /\ executor' = executor
              /\ product' = product
              /\ pricehistory' = pricehistory]_vars

\* Both unsupported URLs were received and rejected.
C8_BothRejected ==
    \E r1, r2 \in Clients :
        /\ req[r1].url = "https://example.com/item/1"
        /\ req[r2].url = "https://[www.amazon.com/dp/B07R"
        /\ req[r1].response.status_code = 400
        /\ req[r2].response.status_code = 400

AllEmpty(scraped_data) ==
    scraped_data.title = "" /\ scraped_data.price = "" /\ scraped_data.image_url = ""

\* C9: a call resumed with an all-empty result ends with success false and
\* a diagnostic message, leaving every Product and PriceHistory row as it
\* was; every answered scrape has success true iff some field was non-empty.
C9_EmptyResultNoWrite ==
    /\ [][\A r \in Clients :
            (req[r].pc = "ready" /\ req'[r].pc # "ready"
                 /\ AllEmpty(req[r].scraped_data)) =>
                /\ req'[r].pc = "done"
                /\ req'[r].response.kind = "ScrapeResponse"
                /\ req'[r].response.success = FALSE
                /\ req'[r].response.error # ""
                /\ product' = product
                /\ pricehistory' = pricehistory]_vars
    /\ [](\A r \in Clients :
            (req[r].pc = "done" /\ req[r].response.kind = "ScrapeResponse") =>
                (req[r].response.success <=> ~AllEmpty(req[r].scraped_data)))

\* An all-empty result came back for a product that is already stored.
C9_EmptyForStoredProduct ==
    \E r \in Clients :
        /\ req[r].pc = "done"
        /\ req[r].response.kind = "ScrapeResponse"
        /\ AllEmpty(req[r].scraped_data)
        /\ select_product_by_url(canonical[req[r].url]) # 0
        /\ Len(pricehistory) >= 1

\* C10: every answered scrape with a title but no parsable price was saved
\* under a Product row, and every answered scrape with a parsable price but
\* no title was saved and has its PriceHistory row.
C10_FieldsIndependent ==
    \A r \in Clients :
        (req[r].pc = "done" /\ req[r].response.kind = "ScrapeResponse"
             /\ ~AllEmpty(req[r].scraped_data)) =>
            LET d == req[r].scraped_data
                price_float == parsed_price[d]
            IN  /\ (d.title # "" /\ price_float = NoPrice) =>
                      /\ Saved(r)
                      /\ select_product_by_url(canonical[req[r].url])
                            = req[r].response.product_id
                /\ (d.title = "" /\ price_float # NoPrice) =>
                      /\ Saved(r)
                      /\ \E i \in 1..Len(pricehistory) :
                            /\ pricehistory[i].product_id = req[r].response.product_id
                            /\ pricehistory[i].price = price_float

----------------------------------------------------------------------------
(* The scraper job: scrape_mercadolibre, and with the same structure       *)
(* scrape_amazon_product and search_mercadolibre. Each job opens one       *)
(* Playwright session and is run by a thread of one server's executor.     *)

\* Bound: number of jobs submitted to the executor
MaxJobs == 4

JobIds == 1..MaxJobs

\* The server process whose executor runs the jobs
RenderServer == "s1"

\* The locals of a job that has not started: result as initialised at
\* src/scrapers/mercadolibre_scraper.py:19-23
NewJob ==
    [pc |-> "new", playwright |-> "none", browser |-> "none", context |-> "none",
     timed_out |-> FALSE, result |-> NoData]

\* What the three extraction blocks can leave in result
RenderResults ==
    { NoData, [title |-> "Soap Bar", price |-> "$14.98", image_url |-> "i.jpg"] }

InitRender ==
    /\ Init!1 /\ Init!2 /\ Init!3 /\ Init!4 /\ Init!5
    /\ Init!6 /\ Init!7 /\ Init!8 /\ Init!9 /\ Init!10
    /\ job = [j \in JobIds |-> NewJob]
    /\ Init!12 /\ Init!13 /\ Init!14

\* ThreadPoolExecutor.submit: a free thread takes the job, else it is queued
submit(ex, j) ==
    IF Cardinality(ex.threads) < max_workers
    THEN [ex EXCEPT !.threads = @ \cup {j}]
    ELSE [ex EXCEPT !.queue = Append(@, j)]

\* Mutant: the thread of a job whose navigation timed out stays occupied
release_unless_timed_out(ex, j) ==
    IF job[j].timed_out THEN ex
    ELSE IF ex.queue = <<>>
    THEN [ex EXCEPT !.threads = @ \ {j}]
    ELSE [ex EXCEPT !.threads = (@ \ {j}) \cup {Head(ex.queue)}, !.queue = Tail(@)]

\* The job's function has returned or raised: its thread takes the oldest
\* queued job, if any
release(ex, j) ==
    IF ex.queue = <<>>
    THEN [ex EXCEPT !.threads = @ \ {j}]
    ELSE [ex EXCEPT !.threads = (@ \ {j}) \cup {Head(ex.queue)}, !.queue = Tail(@)]

Running(j) == j \in executor[RenderServer].threads

RenderUnchanged ==
    UNCHANGED <<product, pricehistory, clock, calls, req, loop, gp,
                canon_in, canon_out, chain, parse, route>>

\* loop.run_in_executor(executor, scraper_function, request.url)
Submit(j) ==
    /\ job[j].pc = "new"
    /\ \A i \in 1..(j - 1) : job[i].pc # "new"
    /\ executor' = [executor EXCEPT ![RenderServer] = submit(@, j)]
    /\ job' = [job EXCEPT ![j].pc =
                  IF j \in executor'[RenderServer].threads THEN "launch" ELSE "queued"]
    /\ RenderUnchanged

\* with sync_playwright() as p: browser = p.chromium.launch(...)
Launch(j, ok) ==
    /\ Running(j) /\ job[j].pc = "launch"
    /\ job' = [job EXCEPT ![j].playwright = "started",
                          ![j].browser = IF ok THEN "open" ELSE @,
                          ![j].pc = IF ok THEN "context" ELSE "raise"]
    /\ UNCHANGED executor /\ RenderUnchanged

\* context = browser.new_context(...), outside the try block
NewContext(j, ok) ==
    /\ Running(j) /\ job[j].pc = "context"
    /\ job' = [job EXCEPT ![j].context = IF ok THEN "open" ELSE @,
                          ![j].pc = IF ok THEN "page" ELSE "raise"]
    /\ UNCHANGED executor /\ RenderUnchanged

\* page = context.new_page(), outside the try block
NewPage(j, ok) ==
    /\ Running(j) /\ job[j].pc = "page"
    /\ job' = [job EXCEPT ![j].pc = IF ok THEN "init" ELSE "raise"]
    /\ UNCHANGED executor /\ RenderUnchanged

\* page.add_init_script(...), outside the try block
AddInitScript(j, ok) ==
    /\ Running(j) /\ job[j].pc = "init"
    /\ job' = [job EXCEPT ![j].pc = IF ok THEN "goto" ELSE "raise"]
    /\ UNCHANGED executor /\ RenderUnchanged

\* page.goto(url, wait_until='networkidle', timeout=45000): it returns, or
\* raises PlaywrightTimeout at the deadline, or raises another error; both
\* exceptions are caught and the finally block runs
Goto(j, outcome) ==
    /\ Running(j) /\ job[j].pc = "goto"
    /\ job' = [job EXCEPT ![j].timed_out = (outcome = "timeout"),
                          ![j].pc = IF outcome = "ok" THEN "extract" ELSE "finally"]
    /\ UNCHANGED executor /\ RenderUnchanged

\* page.wait_for_timeout(3000) and the three extraction blocks, each of
\* which catches its own exceptions
Extract(j, data) ==
    /\ Running(j) /\ job[j].pc = "extract"
    /\ job' = [job EXCEPT ![j].result = data, ![j].pc = "finally"]
    /\ UNCHANGED executor /\ RenderUnchanged

\* finally: context.close()
CloseContext(j, ok) ==
    /\ Running(j) /\ job[j].pc = "finally"
    /\ job' = [job EXCEPT ![j].context = IF ok THEN "closed" ELSE @,
                          ![j].pc = IF ok THEN "close_browser" ELSE "raise"]
    /\ UNCHANGED executor /\ RenderUnchanged

\* finally: browser.close()
CloseBrowser(j, ok) ==
    /\ Running(j) /\ job[j].pc = "close_browser"
    /\ job' = [job EXCEPT ![j].browser = IF ok THEN "closed" ELSE @,
                          ![j].pc = IF ok THEN "return" ELSE "raise"]
    /\ UNCHANGED executor /\ RenderUnchanged

\* The with block is left, by return result or by the exception, and the
\* thread goes back to the executor's work queue
JobEnd(j) ==
    /\ Running(j) /\ job[j].pc \in {"return", "raise"}
    /\ executor' = [executor EXCEPT ![RenderServer] = release(@, j)]
    /\ job' = [i \in JobIds |->
                 IF i = j
                 THEN [job[j] EXCEPT !.playwright = "stopped",
                                     !.pc = IF job[j].pc = "return"
                                            THEN "returned" ELSE "raised"]
                 ELSE IF i \in executor'[RenderServer].threads /\ job[i].pc = "queued"
                 THEN [job[i] EXCEPT !.pc = "launch"]
                 ELSE job[i]]
    /\ RenderUnchanged

\* The steps of job j, with the outcomes each Playwright call may have
JobStep(j, oks, outcomes, results) ==
    \/ \E ok \in oks : Launch(j, ok)
    \/ \E ok \in oks : NewContext(j, ok)
    \/ \E ok \in oks : NewPage(j, ok)
    \/ \E ok \in oks : AddInitScript(j, ok)
    \/ \E outcome \in outcomes : Goto(j, outcome)
    \/ \E data \in results : Extract(j, data)
    \/ \E ok \in oks : CloseContext(j, ok)
    \/ \E ok \in oks : CloseBrowser(j, ok)
    \/ JobEnd(j)

\* The result of a page that rendered in time
Rendered == [title |-> "Soap Bar", price |-> "$14.98", image_url |-> "i.jpg"]

\* Jobs whose navigation finishes or runs into the deadline
PoolStep(j) == JobStep(j, {TRUE}, {"ok", "timeout"}, {Rendered})

NextRender ==
    \/ \E j \in JobIds : Submit(j)
    \/ \E j \in JobIds : PoolStep(j)

\* Specification of the pool: more jobs than threads. Every Playwright
\* call returns or raises, and a thread that holds a job runs it.
SpecRender ==
    InitRender /\ [][NextRender]_vars /\ \A j \in JobIds : WF_vars(PoolStep(j))

\* Jobs of the session model
SessionJobs == {1, 2}

\* Specification of the session: two jobs, every Playwright call of which
\* may raise.
NextSession ==
    \/ \E j \in SessionJobs : Submit(j)
    \/ \E j \in SessionJobs :
          JobStep(j, BOOLEAN, {"ok", "timeout", "error"}, RenderResults)

SpecSession == InitRender /\ [][NextSession]_vars

Finished(j) == job[j].pc \in {"returned", "raised"}

\* C11: a job whose navigation ran into the deadline returns the all-empty
\* result, which scrape_product reports as a failure, and gives its thread
\* back; with 3 threads, every submitted job, queued behind timed-out jobs
\* or not, is eventually run to its end.
C11_TimeoutFreesSlot ==
    /\ [](\A j \in JobIds :
            (job[j].timed_out /\ Finished(j)) =>
                /\ job[j].pc = "returned"
                /\ job[j].result = NoData
                /\ ~has_data(job[j].result)
                /\ ~Running(j))
    /\ \A j \in JobIds : (job[j].pc \in {"queued", "launch"}) ~> Finished(j)

\* All three threads hold jobs that timed out, and a fourth job is queued.
C11_QueuedBehindTimeouts ==
    /\ Cardinality({j \in JobIds : Running(j) /\ job[j].timed_out}) = max_workers
    /\ \E j \in JobIds : job[j].pc = "queued"

----------------------------------------------------------------------------
(* Failures below scrape_product: a scraper job that raises, and a         *)
(* database statement that raises because the store is unavailable.        *)

\* str(e) of an exception raised by the scraper job
JobErrors == { "BrowserType.launch: Executable doesn't exist" }

\* str(db_error) of an exception raised by session.exec or session.commit
StorageErrors == { "(sqlite3.OperationalError) unable to open database file" }

\* Mutant: the exception of the job leaves the handler
job_exception_raised(error) ==
    [NoResponse EXCEPT
        !.kind = "Exception", !.status_code = 500, !.detail = error]

\* ScrapeResponse(success=False, data=None, ...) of src/main.py:319-325
job_exception_response(error) ==
    [NoResponse EXCEPT
        !.kind = "ScrapeResponse", !.status_code = 200, !.success = FALSE,
        !.error = "Scraping failed: " \o error]

\* Mutant: a database error is answered like a failed scrape
storage_failure_as_scrape_failure(r, db_error) ==
    [NoResponse EXCEPT
        !.kind = "ScrapeResponse", !.status_code = 200, !.success = FALSE,
        !.error = "Scraping failed: " \o db_error]

\* Lines 306-317 after a database error at the statement request r is at:
\* product_id is in scraped_data once line 285 has run
storage_failure_response(r, db_error) ==
    [NotSavedResponse(req[r].scraped_data, db_error) EXCEPT
        !.product_id = IF req[r].pc = "history" THEN req[r].product_id ELSE 0]

\* The scraper job raises: the thread is released and the exception is set
\* on the future the coroutine awaits.
JobRaise(r, error) ==
    /\ req[r].pc = "awaiting"
    /\ r \in executor[req[r].server].threads
    /\ LET s == req[r].server
       IN  executor' =
             IF executor[s].queue = <<>>
             THEN [executor EXCEPT ![s].threads = @ \ {r}]
             ELSE [executor EXCEPT ![s].threads = (@ \ {r}) \cup {Head(executor[s].queue)},
                                   ![s].queue = Tail(@)]
    /\ req' = [req EXCEPT ![r].pc = "raised", ![r].failed = "render",
                          ![r].exception = error]
    /\ UNCHANGED <<product, pricehistory, clock, calls, loop, gp, canon_in, canon_out, unit_vars>>

\* Lines 204, 319-325: the await raises the job's exception, and the outer
\* except answers.
ResumeRaised(r) ==
    /\ req[r].pc = "raised"
    /\ loop[req[r].server] = NoRequest
    /\ req' = [req EXCEPT ![r].pc = "done",
                          ![r].response = job_exception_response(req[r].exception)]
    /\ UNCHANGED <<product, pricehistory, clock, calls, loop, executor, gp,
                   canon_in, canon_out, unit_vars>>

\* Lines 226-310: the select of line 232, the commit of line 247, the
\* commit of line 282 or the select of line 292 raises; the inner except
\* answers with the scraped data. Nothing of the failed statement is stored.
StorageFailure(r, db_error) ==
    /\ \/ /\ req[r].pc = "ready"
          /\ loop[req[r].server] = NoRequest
          /\ has_data(req[r].scraped_data)
       \/ req[r].pc \in {"upsert", "price", "history"}
    /\ req' = [req EXCEPT ![r].pc = "done", ![r].failed = "persistence",
                          ![r].exception = db_error,
                          ![r].response = storage_failure_response(r, db_error)]
    /\ loop' = [loop EXCEPT ![req[r].server] = NoRequest]
    /\ UNCHANGED <<product, pricehistory, clock, calls, executor, gp,
                   canon_in, canon_out, unit_vars>>

\* Scrapes of the supported URLs of LedgerUrls, with failures
NextFailure ==
    \/ Scrape(LedgerUrls, ExtractionResults, {1})
    \/ \E r \in Clients, error \in JobErrors : JobRaise(r, error)
    \/ \E r \in Clients : ResumeRaised(r)
    \/ \E r \in Clients, db_error \in StorageErrors : StorageFailure(r, db_error)

SpecFailure == Init /\ [][NextFailure]_vars

C14_DegradedResponse ==
    \A r \in Clients :
        (req[r].pc = "done" /\ req[r].failed = "persistence") =>
            /\ has_data(req[r].scraped_data)
            /\ req[r].response.kind = "ScrapeResponse"
            /\ req[r].response.success
            /\ req[r].response.data = <<req[r].scraped_data>>
            /\ req[r].response.saved_to_database = "False"
            /\ req[r].response.database_error = req[r].exception

\* The database failed after the product of a full result was committed.
C14_FailedAfterCommit ==
    \E r \in Clients :
        /\ req[r].pc = "done" /\ req[r].failed = "persistence"
        /\ req[r].scraped_data.title # "" /\ req[r].scraped_data.price # ""
        /\ req[r].product_id # 0
        /\ req[r].response.saved_to_database = "False"

----------------------------------------------------------------------------
(* Specification of the price parser: parse_price applied to price texts   *)
(* with and without currency marks, separators, digits and points.         *)

PricePrefixes == { "", "$", "US$ " }

PriceBodies ==
    { "", "14.98", "14.980", "1,299.00", "0", "0.00", ".5", "5.", ".", "..",
      "1.2.3", "1.299,00.", "N/A", "-3.50", "Gratis" }

PriceSuffixes == { "", " MXN" }

PriceStrings ==
    { a \o b \o c : a \in PricePrefixes, b \in PriceBodies, c \in PriceSuffixes }

InitPrice ==
    /\ Init!1 /\ Init!2 /\ Init!3 /\ Init!4 /\ Init!5 /\ Init!6
    /\ Init!7 /\ Init!8 /\ Init!9 /\ Init!10 /\ Init!11 /\ Init!12 /\ Init!14
    /\ parse \in [price_str : PriceStrings, returned : {FALSE}, price_float : {NoPrice}]

\* price_float = parse_price(scraped_data.get('price'))
ParsePrice ==
    /\ ~parse.returned
    /\ parse' = [parse EXCEPT !.returned = TRUE,
                              !.price_float = parse_price(parse.price_str)]
    /\ UNCHANGED <<product, pricehistory, clock, calls, req, loop, executor, gp,
                   canon_in, canon_out, job, chain, route>>

NextPrice == ParsePrice

SpecPrice == InitPrice /\ [][NextPrice]_vars

\* Number of positions of s that hold a character of cls
Count(s, cls) == Cardinality({i \in 1..Len(s) : InClass(CharAt(s, i), cls)})

\* C15: parse_price keeps the digits and decimal points only: "$14.98" and
\* "14.98" give 14.98 and "$1,299.00" gives 1299.00; a returned price is
\* never negative; and no price is returned exactly when the text has no
\* digit or more than one decimal point (the empty text included).
C15_ParsePrice ==
    parse.returned =>
        /\ parse.price_str \in {"$14.98", "14.98"} =>
              parse.price_float = [whole |-> 14, frac |-> "98"]
        /\ parse.price_str = "$1,299.00" =>
              parse.price_float = [whole |-> 1299, frac |-> ""]
        /\ parse.price_float # NoPrice => parse.price_float.whole >= 0
        /\ parse.price_float = NoPrice <=>
              (Count(parse.price_str, DigitChars) = 0 \/ Count(parse.price_str, ".") > 1)

\* A text with digits and several decimal points was parsed.
C15_SeveralPoints ==
    /\ parse.returned
    /\ parse.price_str = "$1.2.3"
    /\ parse.price_float = NoPrice

----------------------------------------------------------------------------
(* Specification of the history read: get_product against a database that *)
(* holds two products and three price observations.                        *)

\* The URLs whose scrapes wrote the stored rows
StoredUrls ==
    << "https://www.amazon.com/dp/B07R?tracking=xyz",
       "https://www.mercadolibre.com.mx/p/MLM12" >>

StoredNames == << "Soap Bar", "Unknown Product" >>

StoredProducts ==
    [i \in 1..2 |-> [id |-> i, name |-> StoredNames[i],
                     base_url |-> canonical[StoredUrls[i]],
                     created_at |-> i, updated_at |-> i]]

StoredPrices == { [whole |-> 14, frac |-> "98"], [whole |-> 15, frac |-> "5"] }

\* The observations are numbered and stamped in the order they were
\* written, after their products
StoredHistories ==
    { [i \in 1..3 |-> [id |-> i, product_id |-> owner[i],
                       store_name |-> store_name[StoredUrls[owner[i]]],
                       price |-> price[i], timestamp |-> 2 + i]] :
        owner \in [1..3 -> {1, 2}], price \in [1..3 -> StoredPrices] }

InitHistory ==
    /\ product = StoredProducts
    /\ pricehistory \in StoredHistories
    /\ clock = 6
    /\ Init!4 /\ Init!5 /\ Init!6 /\ Init!7 /\ Init!8 /\ Init!9 /\ Init!10
    /\ Init!11 /\ Init!12 /\ Init!13 /\ Init!14

NextHistory ==
    \/ \E s \in Servers, id \in 1..3 : GetProductSelect(s, id)
    \/ \E h \in select_price_history(gp.product_id) : GetProductHistory(h)

SpecHistory == InitHistory /\ [][NextHistory]_vars

\* C16: get_product answers an unknown id with 404, and a known id with
\* all PriceHistory rows of that product, none of another product, ordered
\* from the newest timestamp to the oldest.
C16_NewestFirst ==
    gp.pc = "done" =>
        IF \E i \in 1..Len(product) : product[i].id = gp.product_id
        THEN LET h   == gp.response.price_history
                 own == {i \in 1..Len(pricehistory) :
                            pricehistory[i].product_id = gp.product_id}
             IN  /\ gp.response.kind = "ProductReadWithHistory"
                 /\ Len(h) = Cardinality(own)
                 /\ {h[i].id : i \in 1..Len(h)} = {pricehistory[i].id : i \in own}
                 /\ \A i \in 1..Len(h) : h[i] = pricehistory[h[i].id]
                 /\ \A i, j \in 1..Len(h) : i < j => h[i].timestamp > h[j].timestamp
        ELSE /\ gp.response.kind = "HTTPException"
             /\ gp.response.status_code = 404

\* Three observations of one product, at t1 < t2 < t3, were read back as
\* t3, t2, t1.
C16_ThreeObservations ==
    /\ gp.pc = "done"
    /\ Len(gp.response.price_history) = 3
    /\ gp.response.price_history[1].timestamp = 5
    /\ gp.response.price_history[2].timestamp = 4
    /\ gp.response.price_history[3].timestamp = 3

----------------------------------------------------------------------------
(* Extraction: the selector chains of scrape_amazon_product                *)
(* (src/scraper.py:98-171) and scrape_mercadolibre                         *)
(* (src/scrapers/mercadolibre_scraper.py:92-181), one field at a time.     *)

Stores == { "amazon", "mercadolibre" }

Fields == { "title", "price", "image_url" }

\* The first two and the last selector of each list of the source
selectors(store, field) ==
    IF store = "amazon"
    THEN IF field = "title"
         THEN << "#productTitle", "h1#title", "span#productTitle" >>
         ELSE IF field = "price"
         THEN << "span.a-price.aok-align-center.reinventPricePriceToPayMargin.priceToPay span.a-offscreen",
                 "span.a-price span.a-offscreen",
                 "span[data-a-color=\"price\"] span.a-offscreen" >>
         ELSE << "#landingImage", "#imgBlkFront", "#imageBlock img" >>
    ELSE IF field = "title"
         THEN << "h1.ui-pdp-title", ".ui-pdp-title", ".item-title__primary" >>
         ELSE IF field = "price"
         THEN << ".andes-money-amount__fraction", ".price-tag-fraction",
                 "meta[itemprop=\"price\"]" >>
         ELSE << "figure.ui-pdp-gallery__figure img", ".ui-pdp-image",
                 "img[class*=\"gallery\"]" >>

\* What page.query_selector(selector) gives: None, an exception, or an
\* element with its inner text and attributes ("" for a missing attribute)
NoElement ==
    [kind |-> "none", text |-> "", content |-> "", src |-> "",
     data_old_hires |-> "", data_a_dynamic_image |-> "",
     data_src |-> "", data_zoom |-> ""]

Raises == [NoElement EXCEPT !.kind = "raise"]

Element == [NoElement EXCEPT !.kind = "element"]

\* The kinds of page content a selector can meet, per field
PageKinds(store, field) ==
    IF field = "title" THEN { "none", "raise", "blank", "text" }
    ELSE IF field = "price"
    THEN IF store = "amazon" THEN { "none", "raise", "blank", "text" }
         ELSE { "none", "raise", "text", "marked", "content", "no_content" }
    ELSE IF store = "amazon"
    THEN { "none", "raise", "no_url", "src", "data_uri", "hires",
           "json", "bad_json", "empty_json" }
    ELSE { "none", "raise", "no_url", "src", "data_uri", "data_src", "data_zoom" }

\* The element of kind k under the i-th selector; its texts carry i
element(field, i, k) ==
    LET n == ToString(i)
    IN  IF k = "none" THEN NoElement
        ELSE IF k = "raise" THEN Raises
        ELSE IF k = "blank" THEN [Element EXCEPT !.text = "  "]
        ELSE IF k = "text"
        THEN [Element EXCEPT !.text = IF field = "title" THEN " Soap Bar " \o n \o " "
                                      ELSE " 1,29" \o n \o " "]
        ELSE IF k = "marked" THEN [Element EXCEPT !.text = "MXN 1,29" \o n]
        ELSE IF k = "content" THEN [Element EXCEPT !.content = "129" \o n \o ".00"]
        ELSE IF k = "src" THEN [Element EXCEPT !.src = "https://cdn/i" \o n \o ".jpg"]
        ELSE IF k = "data_uri"
        THEN [Element EXCEPT !.src = "data:image/gif;base64,R0lGOD",
                             !.data_old_hires = "https://cdn/h" \o n \o ".jpg",
                             !.data_src = "https://cdn/s" \o n \o ".jpg"]
        ELSE IF k = "hires"
        THEN [Element EXCEPT !.data_old_hires = "https://cdn/h" \o n \o ".jpg"]
        ELSE IF k = "data_src"
        THEN [Element EXCEPT !.data_src = "https://cdn/s" \o n \o ".jpg"]
        ELSE IF k = "data_zoom"
        THEN [Element EXCEPT !.data_zoom = "https://cdn/z" \o n \o ".jpg"]
        ELSE IF k = "json"
        THEN [Element EXCEPT !.data_a_dynamic_image =
                 "{\"https://cdn/d" \o n \o ".jpg\":[500,500],\"https://cdn/e.jpg\":[90,90]}"]
        ELSE IF k = "bad_json"
        THEN [Element EXCEPT !.data_a_dynamic_image =
                 "{\"https://cdn/d" \o n \o ".jpg\":[500,500"]
        ELSE IF k = "empty_json"
        THEN [Element EXCEPT !.data_a_dynamic_image = "{}"]
        ELSE Element

\* s.strip(), for texts padded with blanks
RECURSIVE strip(_)
strip(s) ==
    IF Len(s) > 0 /\ SubSeq(s, 1, 1) = " " THEN strip(SubSeq(s, 2, Len(s)))
    ELSE IF Len(s) > 0 /\ SubSeq(s, Len(s), Len(s)) = " "
    THEN strip(SubSeq(s, 1, Len(s) - 1))
    ELSE s

\* a or b, for strings
Or(a, b) == IF a # "" THEN a ELSE b

\* list(json.loads(text).keys())[0] for the texts of the model: a mapping
\* is the text between braces, its first key the first quoted string; a
\* text that does not end with the closing brace does not parse, and the
\* empty mapping has no first key.
json_first_key(text) ==
    IF ~(StartsWith(text, "{") /\ SubSeq(text, Len(text), Len(text)) = "}")
    THEN [raised |-> TRUE, key |-> ""]
    ELSE IF ~StartsWith(text, "{\"")
    THEN [raised |-> TRUE, key |-> ""]
    ELSE LET rest == SubSeq(text, 3, Len(text))
         IN  [raised |-> FALSE, key |-> SubSeq(rest, 1, Find(rest, "\"") - 1)]

\* What one selector contributes: no match, or the value that ends the loop
NoMatch == [raised |-> FALSE, stop |-> FALSE, value |-> ""]

Break(value) == [raised |-> FALSE, stop |-> TRUE, value |-> value]

\* any(symbol in price_text for symbol in ['$', '€', '£', 'USD', 'MXN', 'ARS'])
has_currency_symbol(price_text) ==
    \E symbol \in {"$", "€", "£", "USD", "MXN", "ARS"} : Contains(price_text, symbol)

\* Title of both stores and price of Amazon: the stripped inner text
\* (src/scraper.py:107-111, 128-132; mercadolibre_scraper.py:102-106)
text_of(el) ==
    IF el.kind = "none" THEN NoMatch ELSE Break(strip(el.text))

\* Price of MercadoLibre (mercadolibre_scraper.py:123-151); currency is the
\* element of '.andes-money-amount__currency-symbol'
mercadolibre_price(selector, el, currency) ==
    IF StartsWith(selector, "meta")
    THEN IF el.kind # "none" /\ el.content # ""
         THEN Break((IF currency.kind # "none" THEN strip(currency.text) ELSE "$")
                       \o el.content)
         ELSE NoMatch
    ELSE IF el.kind = "none" THEN NoMatch
    ELSE LET price_text == strip(el.text)
         IN  IF currency.kind # "none" THEN Break(strip(currency.text) \o price_text)
             ELSE IF ~has_currency_symbol(price_text) THEN Break("$" \o price_text)
             ELSE Break(price_text)

\* Image of Amazon (src/scraper.py:147-168)
amazon_image(el) ==
    IF el.kind = "none" THEN NoMatch
    ELSE LET img_url == IF el.src = "" \/ Contains(el.src, "data:image")
                        THEN Or(el.data_old_hires, el.data_a_dynamic_image)
                        ELSE el.src
         IN  IF img_url = "" THEN NoMatch
             ELSE IF StartsWith(img_url, "{")
             THEN IF json_first_key(img_url).raised THEN Break(img_url)
                  ELSE Break(json_first_key(img_url).key)
             ELSE Break(img_url)

\* Image of MercadoLibre (mercadolibre_scraper.py:168-178)
mercadolibre_image(el) ==
    IF el.kind = "none" THEN NoMatch
    ELSE LET img_url == Or(el.src, Or(el.data_src, el.data_zoom))
         IN  IF img_url # "" /\ ~StartsWith(img_url, "data:") THEN Break(img_url)
             ELSE NoMatch

\* Mutant: the loop has no break, the last matching selector supplies the value
try_selector_merge(store, field, selector, el, currency) ==
    LET t == IF el.kind = "raise" THEN [NoMatch EXCEPT !.raised = TRUE]
             ELSE IF field = "title" THEN text_of(el)
             ELSE IF field = "price"
             THEN IF store = "amazon" THEN text_of(el)
                  ELSE mercadolibre_price(selector, el, currency)
             ELSE IF store = "amazon" THEN amazon_image(el)
             ELSE mercadolibre_image(el)
    IN  [t EXCEPT !.stop = FALSE]

\* One iteration of a field's for loop: the query or a read raises, or the
\* selector contributes as its field and store say
try_selector(store, field, selector, el, currency) ==
    IF el.kind = "raise" THEN [NoMatch EXCEPT !.raised = TRUE]
    ELSE IF field = "title" THEN text_of(el)
    ELSE IF field = "price"
    THEN IF store = "amazon" THEN text_of(el)
         ELSE mercadolibre_price(selector, el, currency)
    ELSE IF store = "amazon" THEN amazon_image(el)
    ELSE mercadolibre_image(el)

\* The currency-symbol element of the page, if it has one
CurrencyKinds(store, field) ==
    IF store = "mercadolibre" /\ field = "price" THEN { "none", "symbol" } ELSE { "none" }

currency_element(k) ==
    IF k = "none" THEN NoElement ELSE [Element EXCEPT !.text = " MX$ "]

\* Pages: what each selector of the field's list meets
Pages(store, field) == [1..Len(selectors(store, field)) -> PageKinds(store, field)]

InitExtract ==
    /\ Init!1 /\ Init!2 /\ Init!3 /\ Init!4 /\ Init!5 /\ Init!6
    /\ Init!7 /\ Init!8 /\ Init!9 /\ Init!10 /\ Init!11 /\ Init!13 /\ Init!14
    /\ \E store \in Stores, field \in Fields :
          \E page \in Pages(store, field), currency \in CurrencyKinds(store, field) :
             chain = [store |-> store, field |-> field, page |-> page,
                      currency |-> currency, index |-> 1, queried |-> <<>>,
                      value |-> "", state |-> "running"]

\* One iteration of the for loop of the field's try block. An exception
\* leaves the loop for the except clause of the block.
QuerySelector ==
    /\ chain.state = "running"
    /\ LET i == chain.index
           t == try_selector(chain.store, chain.field,
                             selectors(chain.store, chain.field)[i],
                             element(chain.field, i, chain.page[i]),
                             currency_element(chain.currency))
       IN  chain' = [chain EXCEPT
                       !.queried = Append(@, i),
                       !.index = i + 1,
                       !.value = IF t.stop /\ ~t.raised THEN t.value ELSE @,
                       !.state = IF t.raised THEN "aborted"
                                 ELSE IF t.stop THEN "break"
                                 ELSE IF i = Len(selectors(chain.store, chain.field))
                                 THEN "exhausted"
                                 ELSE "running"]
    /\ UNCHANGED <<product, pricehistory, clock, calls, req, loop, executor, gp,
                   canon_in, canon_out, job, parse, route>>

NextExtract == QuerySelector

SpecExtract == InitExtract /\ [][NextExtract]_vars

\* The i-th selector of the chain meets an element
Matches(i) == chain.page[i] \notin {"none", "raise"}

\* The i-th selector meets an element that has a value for the field: any
\* element for a title or a price text, a content attribute for the meta
\* price, an attribute with a usable URL for an image
Usable(i) ==
    IF chain.field = "image_url"
    THEN IF chain.store = "amazon"
         THEN chain.page[i] \in {"src", "data_uri", "hires", "json", "bad_json", "empty_json"}
         ELSE chain.page[i] \in {"src", "data_src", "data_zoom"}
    ELSE IF chain.store = "mercadolibre" /\ chain.field = "price"
            /\ StartsWith(selectors(chain.store, chain.field)[i], "meta")
    THEN chain.page[i] = "content"
    ELSE Matches(i)

\* C17 as stated: once a queried selector has met an element, no later
\* selector of the list is queried.
C17_StopAtFirstMatch ==
    \A k \in 1..Len(chain.queried) :
        Matches(chain.queried[k]) => k = Len(chain.queried)

\* C17, amended: the selectors are queried in list order, and once a
\* queried selector has met an element that has a value for the field, the
\* loop ends with the value of that element and no later selector is
\* queried; an element without a value is passed over like no element.
C17_StopAtFirstValue ==
    /\ chain.queried = [k \in 1..Len(chain.queried) |-> k]
    /\ \A k \in 1..Len(chain.queried) :
          Usable(chain.queried[k]) =>
              /\ k = Len(chain.queried)
              /\ chain.state = "break"
              /\ chain.value =
                    try_selector(chain.store, chain.field,
                                 selectors(chain.store, chain.field)[k],
                                 element(chain.field, k, chain.page[k]),
                                 currency_element(chain.currency)).value
    /\ chain.state = "break" => Usable(chain.queried[Len(chain.queried)])

\* The first image selector met an element without a URL, the second one
\* supplied the image, and the third was not queried.
C17_SecondSelectorSupplies ==
    /\ chain.field = "image_url"
    /\ chain.page[1] = "no_url" /\ chain.page[2] = "src" /\ chain.page[3] = "src"
    /\ chain.state = "break"
    /\ chain.queried = <<1, 2>>
    /\ chain.value = "https://cdn/i2.jpg"

\* C18: when the first selector that meets anything raises, and the next
\* selector of the list would match, the field's value comes from that
\* next selector.
C18_ExceptionSkipsSelector ==
    chain.state # "running" =>
        \A i \in 1..(Len(chain.page) - 1) :
            (/\ chain.page[i] = "raise"
             /\ \A h \in 1..(i - 1) : chain.page[h] = "none"
             /\ chain.page[i + 1] \in {"text", "src"}
             /\ Usable(i + 1)) =>
                /\ chain.state = "break"
                /\ chain.queried = [k \in 1..(i + 1) |-> k]
                /\ chain.value # ""

\* C19: the image URL of Amazon is never the text of a dynamic-image
\* attribute, and when that text parses it is the first key of the mapping.
C19_NoUnparsedJson ==
    (chain.store = "amazon" /\ chain.field = "image_url" /\ chain.state # "running") =>
        /\ ~StartsWith(chain.value, "{")
        /\ \A i \in 1..Len(chain.page) :
              (chain.state = "break" /\ chain.queried[Len(chain.queried)] = i
                  /\ chain.page[i] = "json") =>
                 chain.value = "https://cdn/d" \o ToString(i) \o ".jpg"

----------------------------------------------------------------------------
(* The name of a product over successive scrapes                           *)

\* Request r commits its product in this step (src/main.py:247)
Commits(r) == req[r].pc = "upsert" /\ req'[r].pc = "price"

\* C20: a scrape that finds its product stores its title as the name when
\* the title is not empty (the row being as the scrape selected it), leaves
\* the name as it is when the title is empty, and sets updated_at to the
\* current, later time in both cases; a scrape that finds none inserts the
\* row with its title or "Unknown Product". No step changes the id, the
\* created_at or the base_url of a stored row, and no other step changes a
\* row at all.
C20_LatestNameWins ==
    [][/\ \A i \in 1..Len(product) :
             /\ i <= Len(product')
             /\ product'[i].id = product[i].id
             /\ product'[i].created_at = product[i].created_at
             /\ product'[i].base_url = product[i].base_url
       /\ \A r \in Clients :
             Commits(r) =>
                LET id    == req'[r].product_id
                    title == req[r].scraped_data.title
                IN  IF req[r].existing_id # 0
                    THEN /\ id = req[r].existing_id
                         /\ Len(product') = Len(product)
                         /\ \A i \in 1..Len(product) : i # id => product'[i] = product[i]
                         /\ title = "" => product'[id].name = product[id].name
                         /\ (title # "" /\ product[id].name = req[r].existing_name) =>
                               product'[id].name = title
                         /\ product'[id].updated_at = clock'
                         /\ product'[id].updated_at > product[id].updated_at
                    ELSE /\ id = Len(product) + 1
                         /\ Len(product') = id
                         /\ product'[id].name =
                               IF title # "" THEN title ELSE "Unknown Product"
                         /\ product'[id].base_url = canonical[req[r].url]
       /\ (\A r \in Clients : ~Commits(r)) => product' = product]_vars

\* A product named by one scrape was scraped again without a title, and
\* has the same name and a later updated_at.
C20_NameKept ==
    \E r \in Clients :
        /\ Saved(r)
        /\ req[r].scraped_data.title = ""
        /\ req[r].existing_id # 0
        /\ req[r].existing_name = "Soap"
        /\ product[req[r].product_id].name = "Soap"
        /\ product[req[r].product_id].updated_at > product[req[r].product_id].created_at

----------------------------------------------------------------------------
(* Routing of one request URL: the scraper that get_scraper_function       *)
(* dispatches, the canonical URL that simplify_url builds and the store    *)
(* label that scrape_product writes, each computed from the URL on its own *)

RouteHosts ==
    { "www.amazon.com", "amazon.es", "www.mercadolibre.com.mx",
      "articulo.mercadolibre.com.ar", "www.mercadolibre.com", "example.com" }

RoutePaths == { "/dp/B07RJ18VMF", "/p/MLM123", "/gp/product/MLA456", "/item/1" }

RouteQueries == { "", "?ref=amazon.com", "?from=mercadolibre.com.mx", "?u=/dp/B000" }

RouteUrls ==
    { "https://" \o h \o p \o q : h \in RouteHosts, p \in RoutePaths, q \in RouteQueries }

InitRoute ==
    /\ Init!1 /\ Init!2 /\ Init!3 /\ Init!4 /\ Init!5 /\ Init!6 /\ Init!7
    /\ Init!8 /\ Init!9 /\ Init!10 /\ Init!11 /\ Init!12 /\ Init!13
    /\ \E url \in RouteUrls :
          route = [pc |-> "received", url |-> url, scraper_function |-> NoScraper,
                   base_url |-> "", store_name |-> ""]

RouteUnchanged ==
    UNCHANGED <<product, pricehistory, clock, calls, req, loop, executor, gp,
                canon_in, canon_out, job, chain, parse>>

\* scraper_function = get_scraper_function(request.url); None is the 400
\* answer (src/main.py:191-199)
RouteDispatch ==
    /\ route.pc = "received"
    /\ LET f == get_scraper_function(route.url)
       IN  route' = [route EXCEPT !.scraper_function = f,
                                  !.pc = IF f = NoScraper THEN "rejected" ELSE "dispatched"]
    /\ RouteUnchanged

\* base_url = simplify_url(request.url) (src/main.py:227-228)
RouteSimplify ==
    /\ route.pc = "dispatched"
    /\ route' = [route EXCEPT !.base_url = simplify_url(route.url), !.pc = "stored"]
    /\ RouteUnchanged

\* store_name, as lines 250-270 derive it for the PriceHistory row
RouteLabel ==
    /\ route.pc = "stored"
    /\ route' = [route EXCEPT !.store_name = store_name_of(route.url), !.pc = "labelled"]
    /\ RouteUnchanged

NextRoute == RouteDispatch \/ RouteSimplify \/ RouteLabel

SpecRoute == InitRoute /\ [][NextRoute]_vars

\* The store whose scraper was dispatched
DispatchedStore ==
    IF route.scraper_function = "scrape_amazon" THEN "Amazon" ELSE "MercadoLibre"

\* C21: the store label of a dispatched URL begins with the name of the
\* store whose scraper was dispatched, and is not "Unknown Store".
C21_LabelOfDispatchedStore ==
    route.pc = "labelled" =>
        /\ route.store_name # "Unknown Store"
        /\ StartsWith(route.store_name, DispatchedStore)

\* C23: the canonical URL of a dispatched URL is the URL itself or has a
\* host of the store whose scraper was dispatched.
C23_CanonicalOfDispatchedStore ==
    route.pc \in {"stored", "labelled"} =>
        \/ route.base_url = route.url
        \/ Contains(urlparse_netloc(route.base_url).netloc, Lower(DispatchedStore) \o ".")

----------------------------------------------------------------------------
(* The saved flag of a response against what its request committed         *)

\* The request committed a Product write (lines 234-248)
WroteProduct(r) == req[r].product_id # 0

\* The request committed a PriceHistory row (lines 273-282)
WrotePrice(r) == req[r].price_float # NoPrice

\* C22: a finished scrape answered with saved_to_database false committed
\* neither a Product write nor a PriceHistory row, and one answered with
\* saved_to_database true whose price parsed committed both.
C22_AllOrNothing ==
    \A r \in Clients :
        req[r].pc = "done" =>
            /\ req[r].response.saved_to_database = "False" =>
                   ~WroteProduct(r) /\ ~WrotePrice(r)
            /\ (Saved(r) /\ parsed_price[req[r].scraped_data] # NoPrice) =>
                   /\ WroteProduct(r) /\ WrotePrice(r)
                   /\ product[req[r].product_id].base_url = req[r].base_url
                   /\ \E i \in 1..Len(pricehistory) :
                          /\ pricehistory[i].product_id = req[r].product_id
                          /\ pricehistory[i].price = req[r].price_float

====
